---- MODULE Spec2Model ----
(***************************************************************************)
(* Model of the Code Dog animation controller (src/src/extension.ts).      *)
(* The controller is a single-threaded, event-driven state machine: every  *)
(* action below is one handler or one timer callback run to completion.    *)
(* Times are in milliseconds and are kept relative to the current          *)
(* instant: Date.now() reads now = 0, and when d ms pass every stored      *)
(* timestamp and timer deadline moves d ms toward the past (Advance).      *)
(* setTimeout and setInterval callbacks are records in the bag timers and  *)
(* fire once their deadline has come down to now, EARLY_MS before, or      *)
(* late; a deadline that has passed is kept at now.                        *)
(* Left out: the dog's size and position (codedog.resetPosition, the       *)
(* positionUpdate message, the updateConfig message), which no animation   *)
(* decision reads.                                                         *)
(***************************************************************************)
EXTENDS Bags, FiniteSets, Integers, Sequences, TLC

\* ---- bounds of the model ------------------------------------------------
TICK == 100             \* smallest step of the clock, in ms
MaxInputs == 3          \* inputs of one run: signals handled, waits of one TICK
MaxWired == 2           \* times the panel is created (wireEvents calls)
MaxBarksCounted == 2    \* barksSinceClean counts Bark directives up to this
MaxQuietInputs == 2     \* inputs before the signals stop, in SpecQuiescence
LATE_MS == 1            \* lateness of one callback: the step by which the clock
                        \* passes a due callback, the most one ticker firing adds
                        \* to the ticker's lateness, and the shortest wait

\* ---- program constants --------------------------------------------------
IDLE_THRESHOLD_MS == 300
SUCCESS_RUN_DURATION_MS == 10000
MAX_IDLE_BLINKS == 3
QUICK_IDLE_MS == 200
IDLE_TICK_MS == 500
BLINK_MS == 400
BITE_MS == 600
SNIFF_MS == 900
TRACK_CLOSE_MS == 900
TRACK_SWITCH_MS == 700
BARK_MS == 1200
BARK_COOLDOWN_MS == 30000
LARGE_DELETION == 50
TEST_RUN_MS == 3000
TEST_BITE_MS == 800

NULL == -1                                  \* a null timer handle
STALE == -2                                 \* the handle of a callback that ran
NoAnim == "none"                            \* currentAnim before any directive

AnimName == {"Bark", "Bite", "Blink", "Death", "IdleBlink", "Run", "Sniff", "Tracking", "Walk"}

\* ---- inputs -------------------------------------------------------------
\* frame counts the asset catalog can return for each animation folder
NoAnimations == [n \in AnimName |-> NULL]   \* animations = null
AllFrames == [n \in AnimName |-> 2]
Catalogs == {AllFrames}
\* a media directory in which the Run and Bark folders hold no frame
SomeFrames == [n \in AnimName |-> IF n \in {"Run", "Bark"} THEN 0 ELSE 2]

\* user settings read by loadConfig
Configs == [enableBark : BOOLEAN, barkDelay : {5000}, deathCooldown : {5000}, idleTimeout : {10000}]
DefaultConfig == [enableBark |-> TRUE, barkDelay |-> 5000, deathCooldown |-> 5000, idleTimeout |-> 10000]

\* diagnostics of the active document, as the set of severities present
DiagSets == {{}, {"Error"}, {"Warning"}}

\* contentChanges payloads of an edit
EditEvents == { << >>,
                << [text |-> "a", rangeLength |-> 0] >>,
                << [text |-> "", rangeLength |-> 50] >>,
                << [text |-> "", rangeLength |-> 51] >> }

ExitCodes == {0, 1}

now == 0                \* Date.now(), the origin of the clock

VARIABLES
  panel,              \* TRUE iff the webview panel exists
  animations,         \* NoAnimations or the loaded frame counts
  config,
  lastTypeTime, tempHoldUntil, deathLocked, typingActive,
  diagBarkTimeout, currentAnim, successRunTimeout, quickIdleTimeout,
  idleBlinkCount, nextBarkAllowedAt,
  timers,             \* bag of pending setTimeout/setInterval callbacks
  wired,              \* number of wireEvents calls: listeners per signal
  activeEditor,       \* TRUE iff vscode.window.activeTextEditor is set
  diags,              \* severities in the active document's diagnostics
  settings,           \* the user's codedog.* settings
  active,             \* TRUE until the host disposes context.subscriptions
  issued,             \* directives posted to the webview by the last step
  last,               \* the handler or callback that ran in the last step
  lastBark,           \* history: when the delayed check last issued Bark
  lockedUntil,        \* history: deathCooldown after the last failure signal
  blinksSinceEdit,    \* history: Blink directives of the ticker since an edit
  quietSince,         \* history: "edit" or "save" while nothing has run since
                      \* an edit or a save handled with nothing suppressing it
  barksSinceClean,    \* history: Bark directives since the active editor's
                      \* diagnostics last held no error (counted up to 2)
  ninputs             \* inputs so far

vars == << panel, animations, config, lastTypeTime, tempHoldUntil,
           deathLocked, typingActive, diagBarkTimeout, currentAnim,
           successRunTimeout, quickIdleTimeout, idleBlinkCount,
           nextBarkAllowedAt, timers, wired, activeEditor, diags, settings,
           active, issued, last, lastBark, lockedUntil, blinksSinceEdit,
           quietSince, barksSinceClean,
           ninputs >>

\* ---- the controller state as one value ----------------------------------
Cur == [ panel |-> panel, animations |-> animations, config |-> config,
         lastTypeTime |-> lastTypeTime, tempHoldUntil |-> tempHoldUntil,
         deathLocked |-> deathLocked, typingActive |-> typingActive,
         diagBarkTimeout |-> diagBarkTimeout, currentAnim |-> currentAnim,
         successRunTimeout |-> successRunTimeout,
         quickIdleTimeout |-> quickIdleTimeout,
         idleBlinkCount |-> idleBlinkCount,
         nextBarkAllowedAt |-> nextBarkAllowedAt,
         timers |-> timers, issued |-> << >> ]

Commit(s) ==
  /\ panel' = s.panel
  /\ animations' = s.animations
  /\ config' = s.config
  /\ lastTypeTime' = s.lastTypeTime
  /\ tempHoldUntil' = s.tempHoldUntil
  /\ deathLocked' = s.deathLocked
  /\ typingActive' = s.typingActive
  /\ diagBarkTimeout' = s.diagBarkTimeout
  /\ currentAnim' = s.currentAnim
  /\ successRunTimeout' = s.successRunTimeout
  /\ quickIdleTimeout' = s.quickIdleTimeout
  /\ idleBlinkCount' = s.idleBlinkCount
  /\ nextBarkAllowedAt' = s.nextBarkAllowedAt
  /\ timers' = s.timers
  /\ issued' = s.issued

\* ---- timers -------------------------------------------------------------
\* A pending callback: its kind, its deadline, the onDone of a playTemp
\* expiry, and (history only, read by no callback) whether the latest
\* playTemp call came after this one and ends its hold before this deadline.
Timer(kind, at, onDone) ==
  [kind |-> kind, at |-> at, onDone |-> onDone, superseded |-> FALSE]

SetTimeout(s, kind, ms, onDone) ==
  [s EXCEPT !.timers = @ (+) SetToBag({Timer(kind, now + ms, onDone)})]

\* clearTimeout(handle): the handle is the deadline of the timer it names
ClearTimeout(s, kind, handle) ==
  LET live == {t \in BagToSet(s.timers) : t.kind = kind /\ t.at = handle}
  IN IF live = {} THEN s
     ELSE [s EXCEPT !.timers = @ (-) SetToBag({CHOOSE t \in live : TRUE})]

\* the bag of F(t) for the timers t of bag B
MapBag(F(_), B) ==
  LET RECURSIVE Acc(_)
      Acc(S) == IF S = {} THEN EmptyBag
                ELSE LET t == CHOOSE x \in S : TRUE
                     IN (F(t) :> B[t]) (+) Acc(S \ {t})
  IN Acc(BagToSet(B))

Supersede(t, until) ==
  IF t.kind = "temp" THEN [t EXCEPT !.superseded = (until < t.at)] ELSE t

\* ---- setAnimation, playTemp, isTempActive, applyBaseline ---------------
IsTempActive(s) == now < s.tempHoldUntil

Directive(s, name) ==
  [name |-> name, deathLocked |-> s.deathLocked, temp |-> IsTempActive(s),
   success |-> s.successRunTimeout # NULL]

\* setAnimation with the test for the current animation left out
SetAnimationAlways(s, name, force) ==
  IF ~s.panel \/ s.animations = NoAnimations THEN s
  ELSE IF s.animations[name] = 0 THEN s
  ELSE [s EXCEPT !.issued = Append(@, Directive(s, name)),
                 !.currentAnim = name]

\* setAnimation with the test for missing frames left out
SetAnimationWithoutFrames(s, name, force) ==
  IF ~s.panel \/ s.animations = NoAnimations THEN s
  ELSE IF ~force /\ s.currentAnim = name THEN s
  ELSE [s EXCEPT !.issued = Append(@, Directive(s, name)),
                 !.currentAnim = name]

SetAnimation(s, name, force) ==
  IF ~s.panel \/ s.animations = NoAnimations THEN s
  ELSE IF ~force /\ s.currentAnim = name THEN s
  ELSE IF s.animations[name] = 0 THEN s
  ELSE [s EXCEPT !.issued = Append(@, Directive(s, name)),
                 !.currentAnim = name]

ApplyBaseline(s) ==
  IF s.successRunTimeout # NULL THEN s
  ELSE LET idle == now - s.lastTypeTime > IDLE_THRESHOLD_MS
       IN IF idle THEN SetAnimation(s, "IdleBlink", FALSE)
          ELSE SetAnimation(s, "Walk", FALSE)

PlayTemp(s, name, ms, onDone) ==
  LET s1 == [s EXCEPT !.tempHoldUntil = now + ms]
      s2 == SetAnimation(s1, name, TRUE)
      s3 == [s2 EXCEPT !.timers = MapBag(LAMBDA t : Supersede(t, now + ms), @)]
  IN SetTimeout(s3, "temp", ms, onDone)

\* ---- listeners ----------------------------------------------------------
\* every wireEvents call adds one listener per signal; they run in turn
Dispatch(H(_), s, n) ==
  LET f[k \in 0..n] == IF k = 0 THEN s ELSE H(f[k-1])
  IN f[n]


\* ---- onDidChangeTextDocument -------------------------------------------
HasLargeDeletion(e) ==
  \E i \in 1..Len(e) : e[i].text = "" /\ e[i].rangeLength > LARGE_DELETION

OnEdit(s, e) ==
  LET s1 == [s EXCEPT !.lastTypeTime = now, !.typingActive = TRUE,
                      !.idleBlinkCount = 0]
      s2 == IF ~IsTempActive(s1) THEN SetAnimation(s1, "Walk", FALSE) ELSE s1
      s3 == IF s2.quickIdleTimeout # NULL
            THEN ClearTimeout(s2, "quick", s2.quickIdleTimeout) ELSE s2
      s4 == [SetTimeout(s3, "quick", QUICK_IDLE_MS, "none")
               EXCEPT !.quickIdleTimeout = now + QUICK_IDLE_MS]
  IN IF s1.deathLocked THEN s1
     ELSE IF s1.successRunTimeout # NULL THEN s1
     ELSE IF HasLargeDeletion(e) THEN PlayTemp(s4, "Bite", BITE_MS, "baseline")
     ELSE s4

\* the watchdog set by OnEdit
QuickIdleFired(s) ==
  IF /\ now - s.lastTypeTime >= QUICK_IDLE_MS
     /\ ~IsTempActive(s)
     /\ ~s.deathLocked
     /\ s.successRunTimeout = NULL
  THEN [SetAnimation(s, "IdleBlink", FALSE) EXCEPT !.typingActive = FALSE]
  ELSE s

\* ---- idleTicker ---------------------------------------------------------
\* the idle ticker with the test of idleBlinkCount left out
IdleTickFiredUncounted(s, rnd) ==
  LET timeSinceType == now - s.lastTypeTime
  IN IF /\ timeSinceType >= s.config.idleTimeout
        /\ ~IsTempActive(s)
        /\ ~s.deathLocked
        /\ s.successRunTimeout = NULL
     THEN IF rnd
          THEN PlayTemp([s EXCEPT !.idleBlinkCount = @ + 1],
                        "Blink", BLINK_MS, "idleblink")
          ELSE IF s.currentAnim # "IdleBlink"
               THEN SetAnimation(s, "IdleBlink", FALSE)
               ELSE s
     ELSE s

\* rnd is the outcome of Math.random() < 0.3
IdleTickFired(s, rnd) ==
  LET timeSinceType == now - s.lastTypeTime
  IN IF /\ timeSinceType >= s.config.idleTimeout
        /\ ~IsTempActive(s)
        /\ ~s.deathLocked
        /\ s.successRunTimeout = NULL
     THEN IF s.idleBlinkCount < MAX_IDLE_BLINKS /\ rnd
          THEN PlayTemp([s EXCEPT !.idleBlinkCount = @ + 1],
                        "Blink", BLINK_MS, "idleblink")
          ELSE IF s.currentAnim # "IdleBlink"
               THEN SetAnimation(s, "IdleBlink", FALSE)
               ELSE s
     ELSE s

\* ---- the expiry callback of playTemp -----------------------------------
\* the expiry callback without its test of tempHoldUntil
TempFiredUnguarded(s, onDone) ==
  LET s1 == [s EXCEPT !.tempHoldUntil = 0]
  IN IF onDone = "idleblink"
     THEN IF ~s1.deathLocked /\ s1.successRunTimeout = NULL
          THEN SetAnimation(s1, "IdleBlink", FALSE) ELSE s1
     ELSE ApplyBaseline(s1)

TempFired(s, onDone) ==
  IF now >= s.tempHoldUntil
  THEN LET s1 == [s EXCEPT !.tempHoldUntil = 0]
       IN IF onDone = "idleblink"
          THEN IF ~s1.deathLocked /\ s1.successRunTimeout = NULL
               THEN SetAnimation(s1, "IdleBlink", FALSE) ELSE s1
          ELSE ApplyBaseline(s1)
  ELSE s

\* ---- checkDiagnostics and its delayed check ----------------------------
HasAny(dg) ==
  LET hasErr == \E d \in dg : d = "Error"
      hasWarn == \E d \in dg : d = "Warning"
  IN hasErr \/ hasWarn

\* checkDiagnostics with the cancellation of the clean branch left out
CheckDiagnosticsKeepsPending(s, ed, dg) ==
  IF \/ ~s.panel \/ s.animations = NoAnimations \/ s.deathLocked
     \/ s.successRunTimeout # NULL \/ ~s.config.enableBark THEN s
  ELSE IF ~ed THEN s
  ELSE IF ~HasAny(dg)
       THEN LET s2 == [s EXCEPT !.nextBarkAllowedAt = 0]
            IN IF ~IsTempActive(s2) /\ ~s2.deathLocked
               THEN ApplyBaseline(s2) ELSE s2
  ELSE IF s.diagBarkTimeout = NULL /\ now >= s.nextBarkAllowedAt
       THEN [SetTimeout(s, "bark", s.config.barkDelay, "none")
               EXCEPT !.diagBarkTimeout = now + s.config.barkDelay]
  ELSE s

CheckDiagnostics(s, ed, dg) ==
  IF \/ ~s.panel \/ s.animations = NoAnimations \/ s.deathLocked
     \/ s.successRunTimeout # NULL \/ ~s.config.enableBark THEN s
  ELSE IF ~ed THEN s
  ELSE IF ~HasAny(dg)
       THEN LET s1 == IF s.diagBarkTimeout # NULL
                      THEN [ClearTimeout(s, "bark", s.diagBarkTimeout)
                              EXCEPT !.diagBarkTimeout = NULL]
                      ELSE s
                s2 == [s1 EXCEPT !.nextBarkAllowedAt = 0]
            IN IF ~IsTempActive(s2) /\ ~s2.deathLocked
               THEN ApplyBaseline(s2) ELSE s2
  ELSE IF s.diagBarkTimeout = NULL /\ now >= s.nextBarkAllowedAt
       THEN [SetTimeout(s, "bark", s.config.barkDelay, "none")
               EXCEPT !.diagBarkTimeout = now + s.config.barkDelay]
  ELSE s

\* the delayed check without the cooldown it starts
BarkFiredNoCooldown(s, ed, dg) ==
  LET s1 == [s EXCEPT !.diagBarkTimeout = NULL]
  IN IF ~s1.panel \/ s1.animations = NoAnimations \/ s1.deathLocked THEN s1
     ELSE IF ~ed THEN s1
     ELSE IF HasAny(dg)
          THEN PlayTemp(s1, "Bark", BARK_MS, "baseline")
     ELSE s1

BarkFired(s, ed, dg) ==
  LET s1 == [s EXCEPT !.diagBarkTimeout = NULL]
  IN IF ~s1.panel \/ s1.animations = NoAnimations \/ s1.deathLocked THEN s1
     ELSE IF ~ed THEN s1
     ELSE IF HasAny(dg)
          THEN [PlayTemp(s1, "Bark", BARK_MS, "baseline")
                  EXCEPT !.nextBarkAllowedAt = now + BARK_COOLDOWN_MS]
     ELSE s1

\* ---- the other listeners of wireEvents ---------------------------------
OnSave(s) ==
  IF ~s.deathLocked /\ s.successRunTimeout = NULL
  THEN PlayTemp(s, "Sniff", SNIFF_MS, "baseline") ELSE s

OnClose(s) ==
  IF ~s.deathLocked /\ s.successRunTimeout = NULL
  THEN PlayTemp(s, "Tracking", TRACK_CLOSE_MS, "baseline") ELSE s

OnActiveEditor(s, ed, dg) ==
  LET s1 == IF ~s.deathLocked /\ s.successRunTimeout = NULL
            THEN PlayTemp(s, "Tracking", TRACK_SWITCH_MS, "baseline") ELSE s
  IN CheckDiagnostics(s1, ed, dg)

OnDiagnostics(s, ed, dg) ==
  IF s.config.enableBark THEN CheckDiagnostics(s, ed, dg) ELSE s

CancelSuccessRun(s) ==
  IF s.successRunTimeout # NULL
  THEN [ClearTimeout(s, "success", s.successRunTimeout)
          EXCEPT !.successRunTimeout = NULL]
  ELSE s

OnTaskStart(s) ==
  IF ~s.deathLocked THEN CancelSuccessRun(SetAnimation(s, "Run", FALSE)) ELSE s

OnDebugStart(s) ==
  IF ~s.deathLocked THEN CancelSuccessRun(SetAnimation(s, "Run", FALSE)) ELSE s

\* the failure branch without the cancellation of the success hold
OnTaskEndKeepsHold(s, exitCode) ==
  IF exitCode # 0
  THEN LET s1 == [SetAnimation(s, "Death", FALSE) EXCEPT !.deathLocked = TRUE]
           s3 == SetTimeout(s1, "death", s1.config.deathCooldown, "none")
       IN IF s3.diagBarkTimeout # NULL
          THEN [ClearTimeout(s3, "bark", s3.diagBarkTimeout)
                  EXCEPT !.diagBarkTimeout = NULL]
          ELSE s3
  ELSE LET s1 == [SetTimeout(s, "success", SUCCESS_RUN_DURATION_MS, "none")
                    EXCEPT !.successRunTimeout = now + SUCCESS_RUN_DURATION_MS]
       IN SetAnimation(s1, "Run", FALSE)

OnTaskEnd(s, exitCode) ==
  IF exitCode # 0
  THEN LET s1 == [SetAnimation(s, "Death", FALSE) EXCEPT !.deathLocked = TRUE]
           s2 == CancelSuccessRun(s1)
           s3 == SetTimeout(s2, "death", s2.config.deathCooldown, "none")
       IN IF s3.diagBarkTimeout # NULL
          THEN [ClearTimeout(s3, "bark", s3.diagBarkTimeout)
                  EXCEPT !.diagBarkTimeout = NULL]
          ELSE s3
  ELSE LET s1 == [SetTimeout(s, "success", SUCCESS_RUN_DURATION_MS, "none")
                    EXCEPT !.successRunTimeout = now + SUCCESS_RUN_DURATION_MS]
       IN SetAnimation(s1, "Run", FALSE)

\* the recovery callback without the release of the lock
DeathFiredKeepsLock(s) ==
  IF ~IsTempActive(s) THEN ApplyBaseline(s) ELSE s

DeathFired(s) ==
  LET s1 == [s EXCEPT !.deathLocked = FALSE]
  IN IF ~IsTempActive(s1) THEN ApplyBaseline(s1) ELSE s1

SuccessFired(s) ==
  LET s1 == [s EXCEPT !.successRunTimeout = NULL]
  IN IF ~IsTempActive(s1) /\ ~s1.deathLocked THEN ApplyBaseline(s1) ELSE s1

OnDebugEnd(s) ==
  IF ~s.deathLocked /\ s.successRunTimeout = NULL THEN ApplyBaseline(s) ELSE s

\* ---- commands codedog.testRun, codedog.testBite and debug.start ----------
OnTestRun(s) ==
  IF s.panel /\ s.animations # NoAnimations /\ ~s.deathLocked
  THEN SetTimeout(SetAnimation(s, "Run", FALSE), "testrun", TEST_RUN_MS, "none")
  ELSE s

TestRunFired(s) ==
  IF ~s.deathLocked /\ ~IsTempActive(s) THEN ApplyBaseline(s) ELSE s

OnTestBite(s) ==
  IF s.panel /\ s.animations # NoAnimations /\ ~s.deathLocked
  THEN PlayTemp(s, "Bite", TEST_BITE_MS, "baseline")
  ELSE s

OnDebugStartCommand(s) ==
  IF s.panel /\ s.animations # NoAnimations /\ ~s.deathLocked
  THEN CancelSuccessRun(SetAnimation(s, "Run", FALSE))
  ELSE s

\* ---- codedog.start and panel.onDidDispose ------------------------------
StartCommand(s, cfg, catalog) ==
  LET s0 == [s EXCEPT !.config = cfg]
  IN IF ~s0.panel
     THEN LET s1 == [s0 EXCEPT !.panel = TRUE, !.animations = catalog]
              s2 == SetAnimation(s1, "IdleBlink", FALSE)
          IN SetTimeout(s2, "ticker", IDLE_TICK_MS, "none")
     ELSE s0

OnDispose(s) ==
  LET s1 == [s EXCEPT !.panel = FALSE]
      s2 == IF s1.diagBarkTimeout # NULL
            THEN [ClearTimeout(s1, "bark", s1.diagBarkTimeout)
                    EXCEPT !.diagBarkTimeout = NULL]
            ELSE s1
      s3 == CancelSuccessRun(s2)
  IN IF s3.quickIdleTimeout # NULL
     THEN [ClearTimeout(s3, "quick", s3.quickIdleTimeout)
             EXCEPT !.quickIdleTimeout = NULL]
     ELSE s3

\* ---- initial state: activate() has run, no panel yet --------------------
Init ==
  /\ panel = FALSE
  /\ animations = NoAnimations
  /\ config = DefaultConfig
  /\ lastTypeTime = now
  /\ tempHoldUntil = 0
  /\ deathLocked = FALSE
  /\ typingActive = FALSE
  /\ diagBarkTimeout = NULL
  /\ currentAnim = NoAnim
  /\ successRunTimeout = NULL
  /\ quickIdleTimeout = NULL
  /\ idleBlinkCount = 0
  /\ nextBarkAllowedAt = 0
  /\ timers = EmptyBag
  /\ wired = 0
  /\ activeEditor = TRUE
  /\ diags = {}
  /\ settings \in Configs
  /\ active = TRUE
  /\ issued = << >>
  /\ last = [op |-> "activate", arg |-> NULL, barkCancelled |-> FALSE,
          holdCancelled |-> FALSE, quiet |-> "none"]
  /\ lastBark = now - BARK_COOLDOWN_MS
  /\ lockedUntil = 0
  /\ blinksSinceEdit = 0
  /\ quietSince = "none"
  /\ barksSinceClean = 0
  /\ ninputs = 0

Names(ds) == {ds[i].name : i \in 1..Len(ds)}

Count(ds, name) == Cardinality({i \in 1..Len(ds) : ds[i].name = name})

\* one handler or callback has run and left the controller in state s
Step(op, arg, s) ==
  /\ Commit(s)
  /\ active' = active
  /\ last' = [op |-> op, arg |-> arg,
              barkCancelled |-> /\ op # "BarkCheck"
                                /\ diagBarkTimeout # NULL
                                /\ s.diagBarkTimeout = NULL,
              holdCancelled |-> /\ op # "SuccessExpiry"
                                /\ successRunTimeout # NULL
                                /\ s.successRunTimeout = NULL,
              quiet |-> quietSince]
  /\ lastBark' = IF op = "BarkCheck" /\ "Bark" \in Names(s.issued)
                 THEN now ELSE lastBark
  /\ lockedUntil' = IF op = "TaskEnded" /\ arg # 0
                    THEN now + config.deathCooldown ELSE lockedUntil
  /\ blinksSinceEdit' = IF op = "EditChanged" THEN 0
                        ELSE IF op = "IdleTick"
                             THEN blinksSinceEdit + Count(s.issued, "Blink")
                             ELSE blinksSinceEdit
  /\ quietSince' =
       IF /\ op = "EditChanged" /\ panel /\ ~deathLocked
          /\ successRunTimeout = NULL /\ ~IsTempActive(Cur)
       THEN "edit"
       ELSE IF /\ op = "Saved" /\ panel /\ ~deathLocked
               /\ successRunTimeout = NULL
            THEN "save"
            ELSE "none"
  /\ barksSinceClean' =
       IF op \in {"DiagnosticsChanged", "ActiveEditorChanged"}
       THEN IF "Error" \in diags' THEN barksSinceClean ELSE 0
       ELSE IF barksSinceClean + Count(s.issued, "Bark") >= MaxBarksCounted
            THEN MaxBarksCounted
            ELSE barksSinceClean + Count(s.issued, "Bark")

\* ---- actions: commands and inbound signals -----------------------------
Signal(op, arg, s) ==
  /\ active
  /\ ninputs < MaxInputs
  /\ ninputs' = ninputs + 1
  /\ Step(op, arg, s)

\* the first codedog.start is not counted as an input
Start ==
  /\ active
  /\ panel \/ wired < MaxWired
  /\ IF wired = 0 THEN ninputs' = ninputs
     ELSE ninputs < MaxInputs /\ ninputs' = ninputs + 1
  /\ \E catalog \in Catalogs :
        Step("Start", NULL, StartCommand(Cur, settings, catalog))
  /\ wired' = IF panel THEN wired ELSE wired + 1
  /\ UNCHANGED << activeEditor, diags, settings >>

Dispose ==
  /\ panel
  /\ Signal("Dispose", NULL, OnDispose(Cur))
  /\ UNCHANGED << wired, activeEditor, diags, settings >>

\* any change of a codedog.* setting, the ones loadConfig reads or another
ConfigChanged ==
  /\ \E cfg \in Configs :
        /\ settings' = cfg
        /\ Signal("ConfigChanged", NULL, [Cur EXCEPT !.config = cfg])
  /\ UNCHANGED << wired, activeEditor, diags >>

\* the host disposes context.subscriptions: commands and listeners are
\* unregistered and every idle ticker is cleared; the panel and the pending
\* one-shot timers stay
Deactivate ==
  /\ active
  /\ ninputs < MaxInputs
  /\ ninputs' = ninputs + 1
  /\ active' = FALSE
  /\ wired' = 0
  /\ LET tickers == {t \in BagToSet(timers) : t.kind = "ticker"}
     IN timers' = timers (-) [t \in tickers |-> timers[t]]
  /\ issued' = << >>
  /\ last' = [op |-> "Deactivate", arg |-> NULL, barkCancelled |-> FALSE,
          holdCancelled |-> FALSE, quiet |-> "none"]
  /\ quietSince' = "none"
  /\ UNCHANGED << panel, animations, config, lastTypeTime, tempHoldUntil,
                  deathLocked, typingActive, diagBarkTimeout, currentAnim,
                  successRunTimeout, quickIdleTimeout, idleBlinkCount,
                  nextBarkAllowedAt, activeEditor, diags, settings, lastBark,
                  lockedUntil, blinksSinceEdit, barksSinceClean >>

EditChanged ==
  /\ wired > 0
  /\ \E e \in EditEvents :
        Signal("EditChanged", HasLargeDeletion(e),
               Dispatch(LAMBDA x : OnEdit(x, e), Cur, wired))
  /\ UNCHANGED << wired, activeEditor, diags, settings >>

Saved ==
  /\ wired > 0
  /\ Signal("Saved", NULL, Dispatch(OnSave, Cur, wired))
  /\ UNCHANGED << wired, activeEditor, diags, settings >>

EditorClosed ==
  /\ wired > 0
  /\ Signal("EditorClosed", NULL, Dispatch(OnClose, Cur, wired))
  /\ UNCHANGED << wired, activeEditor, diags, settings >>

\* The editor and the diagnostics belong to the host: they change whether or
\* not a listener is registered, and the listeners registered (none before
\* the first panel and after deactivation) run on the change.
Changed(op, arg, s) ==
  /\ ninputs < MaxInputs
  /\ ninputs' = ninputs + 1
  /\ Step(op, arg, s)

\* with no active editor there is no active document to hold diagnostics
ActiveEditorChanged ==
  /\ \E ed \in BOOLEAN, dg \in DiagSets :
        /\ ed \/ dg = {}
        /\ activeEditor' = ed
        /\ diags' = dg
        /\ Changed("ActiveEditorChanged", HasAny(dg),
                   Dispatch(LAMBDA x : OnActiveEditor(x, ed, dg), Cur, wired))
  /\ UNCHANGED << wired, settings >>

\* onDidChangeDiagnostics fires for any document, with or without an active
\* editor; dg is what the active document holds after the change
DiagnosticsChanged ==
  /\ \E dg \in DiagSets :
        /\ activeEditor \/ dg = {}
        /\ diags' = dg
        /\ Changed("DiagnosticsChanged", HasAny(dg),
                   Dispatch(LAMBDA x : OnDiagnostics(x, activeEditor, dg),
                            Cur, wired))
  /\ UNCHANGED << wired, activeEditor, settings >>

TaskStarted ==
  /\ wired > 0
  /\ Signal("TaskStarted", NULL, Dispatch(OnTaskStart, Cur, wired))
  /\ UNCHANGED << wired, activeEditor, diags, settings >>

TaskEnded ==
  /\ wired > 0
  /\ \E exitCode \in ExitCodes :
        Signal("TaskEnded", exitCode,
               Dispatch(LAMBDA x : OnTaskEnd(x, exitCode), Cur, wired))
  /\ UNCHANGED << wired, activeEditor, diags, settings >>

DebugStarted ==
  /\ wired > 0
  /\ Signal("DebugStarted", NULL, Dispatch(OnDebugStart, Cur, wired))
  /\ UNCHANGED << wired, activeEditor, diags, settings >>

DebugEnded ==
  /\ wired > 0
  /\ Signal("DebugEnded", NULL, Dispatch(OnDebugEnd, Cur, wired))
  /\ UNCHANGED << wired, activeEditor, diags, settings >>

\* commands are registered once, at activation
TestRun ==
  /\ Signal("TestRun", NULL, OnTestRun(Cur))
  /\ UNCHANGED << wired, activeEditor, diags, settings >>

TestBite ==
  /\ Signal("TestBite", NULL, OnTestBite(Cur))
  /\ UNCHANGED << wired, activeEditor, diags, settings >>

DebugStartCommand ==
  /\ Signal("DebugStartCommand", NULL, OnDebugStartCommand(Cur))
  /\ UNCHANGED << wired, activeEditor, diags, settings >>

\* ---- actions: timer callbacks -------------------------------------------
\* The runtime's timers run on the event loop's clock, which can be up to
\* EARLY_MS ahead of Date.now(): a callback may run while Date.now() is still
\* EARLY_MS short of its deadline, and has run once the deadline is reached.
EARLY_MS == 1

Due(kind) ==
  {t \in BagToSet(timers) : t.kind = kind /\ t.at <= now + EARLY_MS}

\* the controller once timer t has left the bag to run its callback
Taken(t) == [Cur EXCEPT !.timers = @ (-) SetToBag({t})]

Fire(op, arg, s) ==
  /\ Step(op, arg, s)
  /\ UNCHANGED << wired, activeEditor, diags, settings >>

TempExpiry ==
  \E t \in Due("temp") :
     /\ Fire("TempExpiry", t.superseded, TempFired(Taken(t), t.onDone))
     /\ UNCHANGED ninputs

QuickIdle ==
  \E t \in Due("quick") :
     /\ Fire("QuickIdle", NULL,
             QuickIdleFired([Taken(t) EXCEPT !.quickIdleTimeout = STALE]))
     /\ UNCHANGED ninputs

BarkCheck ==
  \E t \in Due("bark") :
     /\ Fire("BarkCheck", NULL, BarkFired(Taken(t), activeEditor, diags))
     /\ UNCHANGED ninputs

DeathRecovery ==
  \E t \in Due("death") :
     /\ Fire("DeathRecovery", NULL, DeathFired(Taken(t)))
     /\ UNCHANGED ninputs

TestRunExpiry ==
  \E t \in Due("testrun") :
     /\ Fire("TestRunExpiry", NULL, TestRunFired(Taken(t)))
     /\ UNCHANGED ninputs

SuccessExpiry ==
  \E t \in Due("success") :
     /\ Fire("SuccessExpiry", NULL, SuccessFired(Taken(t)))
     /\ UNCHANGED ninputs

\* setInterval: the ticker is due again IDLE_TICK_MS after the callback ran.
\* A firing that changes nothing only lets time pass and is counted as a wait.
IdleTick ==
  \E t \in Due("ticker"), rnd \in BOOLEAN :
     LET s0 == [Taken(t) EXCEPT !.timers =
                  @ (+) SetToBag({Timer("ticker", now + IDLE_TICK_MS, "none")})]
         s1 == IdleTickFired(s0, rnd)
     IN /\ Fire("IdleTick", NULL, s1)
        /\ IF s1 = s0 THEN ninputs < MaxInputs /\ ninputs' = ninputs + 1
           ELSE ninputs' = ninputs

\* ---- the clock ----------------------------------------------------------
Max(a, b) == IF a >= b THEN a ELSE b

MaxOf(S) == CHOOSE x \in S : \A y \in S : y <= x

\* the oldest edit the controller can tell from an older one
AgeCap ==
  Max(IDLE_THRESHOLD_MS + TICK,
      MaxOf({c.idleTimeout : c \in Configs \cup {DefaultConfig}}))

\* the ticker's condition (idle for idleTimeout, no override) holds from this
\* instant on if nothing else happens
IdleFrom == Max(lastTypeTime + config.idleTimeout, tempHoldUntil)

\* whether a firing of the idleTicker callback that finds its condition true
\* changes anything, for some outcome of Math.random(): playTemp always does,
\* setAnimation only if it posts
TickerActs ==
  /\ ~deathLocked
  /\ successRunTimeout = NULL
  /\ \/ idleBlinkCount < MAX_IDLE_BLINKS
     \/ /\ currentAnim # "IdleBlink"
        /\ panel /\ animations # NoAnimations
        /\ animations["IdleBlink"] # 0

Min(a, b) == IF a <= b THEN a ELSE b

\* setInterval schedules the next firing IDLE_TICK_MS after the callback ran.
\* Firings(t, d) is the number of firings of ticker t before instant d when
\* every one runs on time, NextFiring(t, d) the first one at or after d.
Firings(t, d) ==
  IF d <= t.at THEN 0
  ELSE (d - t.at + IDLE_TICK_MS - 1) \div IDLE_TICK_MS

NextFiring(t, d) == t.at + Firings(t, d) * IDLE_TICK_MS

\* the set holding the first firing time of ticker t at which its callback
\* changes something if nothing else happens before and every firing runs on
\* time (empty if there is none)
TickerWakes(t) ==
  IF TickerActs THEN {NextFiring(t, IdleFrom)} ELSE {}

OneShots == {t \in BagToSet(timers) : t.kind # "ticker"}
Tickers == {t \in BagToSet(timers) : t.kind = "ticker"}

\* instants at which a callback is to run
Deadlines == {t.at : t \in OneShots} \cup UNION {TickerWakes(t) : t \in Tickers}

\* instants from which a callback may run
Earliest == {dl - EARLY_MS : dl \in Deadlines}

\* Each firing can run up to LATE_MS late, and the lateness adds up: firing
\* number m (from 0) is scheduled at t.at + m * IDLE_TICK_MS + c, where c, at
\* most m * LATE_MS, is the lateness of the firings before it. Schedules(t, d)
\* is the set of instants at which the firing of ticker t that is pending at
\* instant d can be scheduled: it is at most LATE_MS late at d, the firing
\* before it ran before d, and no firing that ran would have changed anything.
Schedules(t, d) ==
  LET m0 == IF d - LATE_MS <= t.at THEN 0
            ELSE (d - LATE_MS - t.at) \div IDLE_TICK_MS
      At(m) == LET first == t.at + m * IDLE_TICK_MS
               IN {first + c : c \in Max(0, d - LATE_MS - first) ..
                                     Min(m * LATE_MS,
                                         d + IDLE_TICK_MS - 1 - first)}
  IN {s \in At(m0) \cup At(m0 + 1) \cup At(m0 + 2) :
        \/ s < t.at + IDLE_TICK_MS
        \/ ~TickerActs
        \/ s - IDLE_TICK_MS < IdleFrom}

\* the same with every firing on time
OnTime(t, d) ==
  LET s == NextFiring(t, d)
  IN IF s < t.at + IDLE_TICK_MS \/ ~TickerActs \/ s - IDLE_TICK_MS < IdleFrom
     THEN {s} ELSE {}

\* The tickers seen d ms later, as a bag: each one, whatever its lateness,
\* pending with its next firing (due now if that firing is late); with late
\* false every firing ran on time.
Rearmed(d, late) ==
  LET RECURSIVE Copies(_, _)
      Copies(A, n) == IF n = 0 THEN {EmptyBag}
                      ELSE {b (+) SetToBag({a}) : b \in Copies(A, n - 1), a \in A}
      After(t) == {[t EXCEPT !.at = Max(s - d, 0)] :
                     s \in IF late THEN Schedules(t, d) ELSE OnTime(t, d)}
      RECURSIVE Bags(_)
      Bags(S) == IF S = {} THEN {EmptyBag}
                 ELSE LET t == CHOOSE x \in S : TRUE
                      IN {b1 (+) b2 : b1 \in Copies(After(t), timers[t]),
                                      b2 \in Bags(S \ {t})}
  IN Bags(Tickers)

\* a handle d ms later: it goes on naming its timer
Later(handle, d) ==
  IF handle \in {NULL, STALE} THEN handle ELSE Max(handle - d, 0)

\* A setTimeout callback seen d ms later: one that is to run stays due until
\* it has run.
Moved(t, d) == [t EXCEPT !.at = Max(@ - d, 0)]

\* d ms pass. With no callback due that changes something: up to the next
\* deadline or EARLY_MS short of it, to the end of the override hold or of the
\* bark cooldown, to the instant the ticker's condition begins to hold, one
\* TICK or one millisecond. With such a callback due: LATE_MS, the callback
\* running late. The ticker firings that change nothing are passed over, on
\* time or late. Only a stop at a deadline, at the end of the hold or of the
\* cooldown with every ticker firing on time is not counted as an input.
Advance ==
  /\ LET dls == Deadlines
         free == dls \cup {tempHoldUntil, nextBarkAllowedAt}
         overdue == \E dl \in dls : dl <= now
         left == ninputs < MaxInputs
         shots == [t \in OneShots |-> timers[t]]
     IN
     \E d \in IF overdue THEN {LATE_MS}
              ELSE IF left
                   THEN free \cup Earliest \cup {TICK, LATE_MS, IdleFrom}
                   ELSE free :
        /\ d > 0
        /\ ~overdue => \A t \in OneShots : d <= t.at
        /\ \E tickers \in Rearmed(d, left) :
              /\ timers' = MapBag(LAMBDA t : Moved(t, d), shots) (+) tickers
              /\ IF ~overdue /\ d \in free /\ tickers \in Rearmed(d, FALSE)
                 THEN ninputs' = ninputs
                 ELSE left /\ ninputs' = ninputs + 1
        /\ lastTypeTime' = Max(lastTypeTime - d, now - AgeCap)
        /\ tempHoldUntil' = Max(tempHoldUntil - d, 0)
        /\ nextBarkAllowedAt' = Max(nextBarkAllowedAt - d, 0)
        /\ diagBarkTimeout' = Later(diagBarkTimeout, d)
        /\ successRunTimeout' = Later(successRunTimeout, d)
        /\ quickIdleTimeout' = Later(quickIdleTimeout, d)
        /\ lastBark' = Max(lastBark - d, now - BARK_COOLDOWN_MS)
        /\ lockedUntil' = Max(lockedUntil - d, 0)
  /\ issued' = << >>
  /\ last' = [op |-> "Advance", arg |-> NULL, barkCancelled |-> FALSE,
          holdCancelled |-> FALSE, quiet |-> "none"]
  /\ UNCHANGED << panel, animations, config, deathLocked, typingActive,
                  currentAnim, idleBlinkCount, wired, activeEditor, diags,
                  settings, active, blinksSinceEdit,
                  quietSince, barksSinceClean >>

Next ==
  \/ Start \/ Dispose \/ ConfigChanged \/ Deactivate
  \/ EditChanged \/ Saved \/ EditorClosed \/ ActiveEditorChanged
  \/ DiagnosticsChanged \/ TaskStarted \/ TaskEnded
  \/ DebugStarted \/ DebugEnded
  \/ TestRun \/ TestBite \/ DebugStartCommand
  \/ TempExpiry \/ QuickIdle \/ BarkCheck \/ DeathRecovery \/ SuccessExpiry
  \/ TestRunExpiry
  \/ IdleTick
  \/ Advance

Spec == Init /\ [][Next]_vars

\* ==== setAnimation on its own ===============================================
\* The states setAnimation can be called in: any panel, catalog and current
\* animation, no timer pending.  A catalog exists once a panel was created.
InitSetAnimation ==
  /\ panel \in BOOLEAN
  /\ animations \in {NoAnimations, AllFrames, SomeFrames}
  /\ panel => animations # NoAnimations
  /\ currentAnim \in AnimName \cup {NoAnim}
  /\ currentAnim # NoAnim => animations # NoAnimations
  /\ config = DefaultConfig
  /\ lastTypeTime = now
  /\ tempHoldUntil = 0
  /\ deathLocked = FALSE
  /\ typingActive = FALSE
  /\ diagBarkTimeout = NULL
  /\ successRunTimeout = NULL
  /\ quickIdleTimeout = NULL
  /\ idleBlinkCount = 0
  /\ nextBarkAllowedAt = 0
  /\ timers = EmptyBag
  /\ wired = 0
  /\ activeEditor = TRUE
  /\ diags = {}
  /\ settings = DefaultConfig
  /\ active = TRUE
  /\ issued = << >>
  /\ last = [op |-> "activate", arg |-> NULL, barkCancelled |-> FALSE,
          holdCancelled |-> FALSE, quiet |-> "none"]
  /\ lastBark = now - BARK_COOLDOWN_MS
  /\ lockedUntil = 0
  /\ blinksSinceEdit = 0
  /\ quietSince = "none"
  /\ barksSinceClean = 0
  /\ ninputs = 0

\* one call setAnimation(name, force)
Request ==
  \E name \in AnimName, force \in BOOLEAN :
     /\ Commit(SetAnimation(Cur, name, force))
     /\ last' = [op |-> "setAnimation",
                 arg |-> [name |-> name, force |-> force],
                 barkCancelled |-> FALSE,
          holdCancelled |-> FALSE, quiet |-> "none"]
     /\ UNCHANGED << wired, activeEditor, diags, settings, active, lastBark,
                     lockedUntil, blinksSinceEdit, quietSince,
                     barksSinceClean, ninputs >>

NextSetAnimation == Request

SpecSetAnimation == InitSetAnimation /\ [][NextSetAnimation]_vars

\* ==== playTemp on its own ===================================================
\* The states playTemp can be called in: a panel or none, a catalog, any
\* current animation, no override in flight yet.
InitPlayTemp ==
  /\ panel \in BOOLEAN
  /\ animations \in {AllFrames, SomeFrames}
  /\ currentAnim \in AnimName \cup {NoAnim}
  /\ currentAnim # NoAnim => animations[currentAnim] > 0
  /\ config = DefaultConfig
  /\ lastTypeTime = now
  /\ tempHoldUntil = 0
  /\ deathLocked = FALSE
  /\ typingActive = FALSE
  /\ diagBarkTimeout = NULL
  /\ successRunTimeout = NULL
  /\ quickIdleTimeout = NULL
  /\ idleBlinkCount = 0
  /\ nextBarkAllowedAt = 0
  /\ timers = EmptyBag
  /\ wired = 0
  /\ activeEditor = TRUE
  /\ diags = {}
  /\ settings = DefaultConfig
  /\ active = TRUE
  /\ issued = << >>
  /\ last = [op |-> "activate", arg |-> NULL, barkCancelled |-> FALSE,
          holdCancelled |-> FALSE, quiet |-> "none"]
  /\ lastBark = now - BARK_COOLDOWN_MS
  /\ lockedUntil = 0
  /\ blinksSinceEdit = 0
  /\ quietSince = "none"
  /\ barksSinceClean = 0
  /\ ninputs = 0

\* one call playTemp(name, ms, onDone)
PlayTempCall ==
  \E name \in {"Bite", "Sniff", "Bark"}, ms \in {BITE_MS, SNIFF_MS, BARK_MS},
     onDone \in {"baseline", "idleblink"} :
     /\ Signal("playTemp", [name |-> name, ms |-> ms],
               PlayTemp(Cur, name, ms, onDone))
     /\ UNCHANGED << wired, activeEditor, diags, settings >>

NextPlayTemp == PlayTempCall \/ TempExpiry \/ Advance

SpecPlayTemp == InitPlayTemp /\ [][NextPlayTemp]_vars

\* ==== the controller once the signals stop ================================
\* Commands and inbound signals arrive only for a while; the event loop goes
\* on running every callback that is due and letting time pass.
Inbound ==
  \/ Start \/ Dispose \/ ConfigChanged \/ Deactivate
  \/ EditChanged \/ Saved \/ EditorClosed \/ ActiveEditorChanged
  \/ DiagnosticsChanged \/ TaskStarted \/ TaskEnded
  \/ DebugStarted \/ DebugEnded
  \/ TestRun \/ TestBite \/ DebugStartCommand

EventLoop ==
  \/ TempExpiry \/ QuickIdle \/ BarkCheck \/ DeathRecovery \/ SuccessExpiry
  \/ TestRunExpiry
  \/ IdleTick
  \/ Advance

NextQuiescence == (ninputs < MaxQuietInputs /\ Inbound) \/ EventLoop

SpecQuiescence == Init /\ [][NextQuiescence]_vars /\ WF_vars(EventLoop)

\* ==== claims ==============================================================
Pending(kind) ==
  LET ts == {t \in BagToSet(timers) : t.kind = kind}
  IN BagCardinality([t \in ts |-> timers[t]])

Baseline == {"Walk", "IdleBlink"}

\* C1: no directive for an animation other than Death is issued at a moment
\* when deathLocked is true, whichever handler or timer callback runs.
C1_DeathExclusive ==
  \A i \in 1..Len(issued) : issued[i].deathLocked => issued[i].name = "Death"

\* C2: the expiry timer of a playTemp that was followed by a playTemp ending
\* earlier is a pure no-op when it fires: tempHoldUntil and the current
\* animation stay as they are and no directive is issued.
C2_StaleTimerNoOp ==
  [][(last'.op = "TempExpiry" /\ last'.arg = TRUE)
       => /\ tempHoldUntil' = tempHoldUntil
          /\ currentAnim' = currentAnim
          /\ issued' = << >>]_vars

\* C3: a delayed bark check is scheduled only when at least 30000 ms have
\* passed since the delayed check last issued Bark.
C3_Cooldown ==
  [][(diagBarkTimeout = NULL /\ diagBarkTimeout' # NULL)
       => now - lastBark >= BARK_COOLDOWN_MS]_vars

\* C4: a TaskEnded signal with a nonzero exit code sets deathLocked, and
\* deathLocked stays true until deathCooldown ms after the latest such signal.
C4_DeathLockHolds ==
  /\ (last.op = "TaskEnded" /\ last.arg # 0) => deathLocked
  /\ lockedUntil > now => deathLocked

\* C5: a TaskStarted or DebugStarted signal handled during a success hold,
\* with no death lock, issues a Run directive and clears the hold.
C5_StartDuringHold ==
  [][(/\ last'.op \in {"TaskStarted", "DebugStarted"}
      /\ panel /\ successRunTimeout # NULL /\ ~deathLocked)
       => /\ "Run" \in Names(issued')
          /\ successRunTimeout' = NULL]_vars

\* C6: at most one success-hold timer is pending at any time (a success
\* signal cancels the timer of the success signal before it).
C6_OneSuccessTimer == Pending("success") <= 1

\* C7 as stated: a DiagnosticsChanged signal with an error or warning,
\* handled with barking enabled, issues no directive; a DiagnosticsChanged
\* signal without error or warning that finds a check pending cancels it and
\* clears the pending handle, and a bark check never issues Bark while the
\* diagnostics are clean.
C7_AnyCleanSignalCancels ==
  [][/\ (last'.op = "DiagnosticsChanged" /\ last'.arg = TRUE
           /\ config.enableBark) => issued' = << >>
     /\ (last'.op = "DiagnosticsChanged" /\ last'.arg = FALSE
           /\ diagBarkTimeout # NULL)
          => (diagBarkTimeout' = NULL /\ Pending("bark")' = 0)
     /\ (last'.op = "BarkCheck" /\ "Bark" \in Names(issued'))
          => HasAny(diags')]_vars

\* C7 amended: the same, for a clean DiagnosticsChanged signal handled by a
\* registered listener while the panel is open, an editor is active, barking
\* is enabled, no death lock is held and no success hold is active.
C7_PendingBarkCancelled ==
  [][/\ (last'.op = "DiagnosticsChanged" /\ last'.arg = TRUE
           /\ config.enableBark) => issued' = << >>
     /\ (last'.op = "DiagnosticsChanged" /\ last'.arg = FALSE
           /\ diagBarkTimeout # NULL
           /\ wired > 0 /\ activeEditor
           /\ panel /\ config.enableBark /\ ~deathLocked
           /\ successRunTimeout = NULL)
          => (diagBarkTimeout' = NULL /\ Pending("bark")' = 0)
     /\ (last'.op = "BarkCheck" /\ "Bark" \in Names(issued'))
          => HasAny(diags')]_vars

C7_Witness ==
  /\ last.op = "DiagnosticsChanged"
  /\ last.barkCancelled
  /\ ~HasAny(diags)
  /\ diagBarkTimeout = NULL
  /\ Pending("bark") = 0

\* C8: while a temporary override is active no Baseline directive (Walk,
\* IdleBlink) is issued, and no Run is issued by a TaskEnded signal.
C8_OverrideProtected ==
  \A i \in 1..Len(issued) :
     issued[i].temp =>
        /\ issued[i].name \notin Baseline
        /\ ~(issued[i].name = "Run" /\ last.op = "TaskEnded")

\* C9: a non-forced setAnimation request for the current animation issues
\* no directive and changes nothing; of two consecutive non-forced requests
\* for one name at most the first issues a directive, exactly one when the
\* panel is open and the name has frames and was not current; a forced
\* request issues the directive whenever the panel is open and frames exist.
C9_SetAnimationIdempotent ==
  [][last'.op = "setAnimation" =>
       LET name == last'.arg.name
           force == last'.arg.force
           frames == panel /\ animations # NoAnimations /\ animations[name] > 0
       IN /\ (~force /\ currentAnim = name)
               => (issued' = << >> /\ currentAnim' = currentAnim)
          /\ (last.op = "setAnimation" /\ last.arg = last'.arg /\ ~force)
               => issued' = << >>
          /\ (~force /\ currentAnim # name /\ frames)
               => (issued' = << Directive(Cur, name) >> /\ currentAnim' = name)
          /\ (force /\ frames)
               => (issued' = << Directive(Cur, name) >> /\ currentAnim' = name)
          /\ UNCHANGED << panel, animations >>]_vars

C9_Witness ==
  /\ last.op = "setAnimation"
  /\ ~last.arg.force
  /\ panel /\ animations[last.arg.name] > 0
  /\ currentAnim = last.arg.name
  /\ issued = << >>

\* C10: idleBlinkCount stays within 0..MAX_IDLE_BLINKS, the ticker issues at
\* most MAX_IDLE_BLINKS Blink directives between two edits, and every edit
\* signal leaves idleBlinkCount at 0, death lock and success hold included.
C10_IdleBlinkBound ==
  /\ idleBlinkCount \in 0..MAX_IDLE_BLINKS
  /\ blinksSinceEdit <= MAX_IDLE_BLINKS
  /\ last.op = "EditChanged" => idleBlinkCount = 0

C10_Witness ==
  /\ blinksSinceEdit = MAX_IDLE_BLINKS
  /\ idleBlinkCount = MAX_IDLE_BLINKS
  /\ last.op = "IdleTick"
  /\ Names(issued) = {"Blink"}

\* C11: an edit handled with the panel open, no death lock, no
\* success hold and no active override issues Walk (or finds Walk current),
\* and when nothing else has run since and the edit started no override, the
\* watchdog runs 200 ms after the edit and issues IdleBlink.
C11_WalkThenIdleBlink ==
  [][/\ (last'.op = "EditChanged" /\ quietSince' = "edit")
          => ("Walk" \in Names(issued') \/ currentAnim = "Walk")
     /\ (last'.op = "QuickIdle" /\ quietSince = "edit" /\ ~IsTempActive(Cur))
          => /\ lastTypeTime = now - QUICK_IDLE_MS
             /\ "IdleBlink" \in Names(issued')]_vars

\* C12: a Saved signal handled with the panel open, no death lock and no
\* success hold issues Sniff, although Sniff may be current already, and
\* holds it for 900 ms; when nothing else has run by then, the expiry
\* callback clears tempHoldUntil and issues IdleBlink.
C12_SaveOverride ==
  [][/\ (last'.op = "Saved" /\ quietSince' = "save")
          => /\ issued' # << >> /\ Names(issued') = {"Sniff"}
             /\ currentAnim' = "Sniff"
             /\ tempHoldUntil' = now + SNIFF_MS
     /\ (quietSince = "save" /\ IsTempActive(Cur)) => currentAnim = "Sniff"
     /\ (last'.op = "TempExpiry" /\ quietSince = "save")
          => /\ tempHoldUntil' = 0
             /\ Names(issued') = {"IdleBlink"}
             /\ currentAnim' = "IdleBlink"]_vars

\* C13: while the active editor's diagnostics hold an error without a break,
\* at most one Bark directive is issued.
C13_BarksOncePerError == barksSinceClean <= 1

\* C14: when an override's timer fires after the latest hold has ended, with
\* the panel open and no death lock, the current animation becomes Run if a
\* success hold is active and Walk or IdleBlink otherwise.
C14_ReversionTarget ==
  [][(last'.op = "TempExpiry" /\ panel /\ ~deathLocked /\ ~IsTempActive(Cur))
       => IF successRunTimeout # NULL
          THEN currentAnim' = "Run"
          ELSE currentAnim' \in Baseline]_vars

\* C15: a Bark directive is issued, and a delayed bark check is scheduled,
\* only with barking enabled, no death lock and no success hold.
C15_BarkGateGuard ==
  [][("Bark" \in Names(issued')
        \/ (diagBarkTimeout = NULL /\ diagBarkTimeout' # NULL))
       => (config'.enableBark /\ ~deathLocked /\ successRunTimeout = NULL)]_vars

\* C16: a TaskEnded signal with a nonzero exit code leaves the success hold
\* inactive and no bark check pending: the timer the hold's handle named and
\* the pending bark check are gone from the pending timers.
C16_FailureCancelsTimers ==
  [][(last'.op = "TaskEnded" /\ last'.arg # 0)
       => /\ deathLocked'
          /\ successRunTimeout' = NULL
          /\ diagBarkTimeout' = NULL
          /\ Pending("bark")' = 0
          /\ successRunTimeout # NULL
               => LET hold == Timer("success", successRunTimeout, "none")
                  IN CopiesIn(hold, timers') = CopiesIn(hold, timers) - 1]_vars

C16_Witness ==
  /\ last.op = "TaskEnded" /\ last.arg # 0
  /\ last.holdCancelled /\ last.barkCancelled
  /\ successRunTimeout = NULL /\ diagBarkTimeout = NULL
  /\ Pending("bark") = 0 /\ Pending("success") = 0

\* C17: a bark check is scheduled only with an error or warning in the
\* active editor, none pending and now >= nextBarkAllowedAt; at most one is
\* pending, exactly when the handle is set; Bark is issued only by the
\* delayed check finding an error or warning, which sets nextBarkAllowedAt
\* to now + 30000.
C17_BarkSchedulingGate ==
  [][/\ (diagBarkTimeout = NULL /\ diagBarkTimeout' # NULL)
          => /\ activeEditor' /\ HasAny(diags')
             /\ Pending("bark") = 0
             /\ now >= nextBarkAllowedAt
             /\ diagBarkTimeout' = now + config.barkDelay
     /\ Pending("bark")' <= 1
     /\ Pending("bark")' = 1 <=> diagBarkTimeout' # NULL
     /\ "Bark" \in Names(issued')
          => /\ last'.op = "BarkCheck"
             /\ activeEditor /\ HasAny(diags)
             /\ nextBarkAllowedAt' = now + BARK_COOLDOWN_MS]_vars

C17_Witness ==
  /\ last.op = "BarkCheck"
  /\ Names(issued) = {"Bark"}
  /\ HasAny(diags)
  /\ nextBarkAllowedAt = now + BARK_COOLDOWN_MS
  /\ diagBarkTimeout = NULL /\ Pending("bark") = 0

\* C18: while a success hold is active no listener or timer callback issues
\* Walk or IdleBlink and no bark check is scheduled, and the hold ends only
\* by a start signal, a failure signal, the disposal of the panel, or the
\* hold's own timer.
C18_SuccessHoldSuppression ==
  [][/\ last'.op # "Start"
          => \A i \in 1..Len(issued') :
                issued'[i].success => issued'[i].name \notin Baseline
     /\ (successRunTimeout # NULL /\ diagBarkTimeout = NULL)
          => diagBarkTimeout' = NULL
     /\ (successRunTimeout # NULL /\ successRunTimeout' = NULL)
          => \/ last'.op \in {"TaskStarted", "DebugStarted",
                              "DebugStartCommand", "Dispose"}
             \/ last'.op = "TaskEnded" /\ last'.arg # 0
             \/ last'.op = "SuccessExpiry" /\ successRunTimeout <= now]_vars

\* C19: a setAnimation request, forced or not, for a name the catalog holds
\* no frame for issues no directive and leaves the current animation as it
\* was.
C19_AssetUnavailable ==
  [][(last'.op = "setAnimation" /\ animations[last'.arg.name] <= 0)
       => (issued' = << >> /\ currentAnim' = currentAnim)]_vars

C19_Witness ==
  /\ last.op = "setAnimation"
  /\ last.arg.force
  /\ panel /\ animations[last.arg.name] = 0
  /\ currentAnim \in AnimName \ {last.arg.name}
  /\ issued = << >>

\* C20: right after the panel has been disposed no timer of the controller
\* is pending.
C20_DisposalCancelsTimers == last.op = "Dispose" => timers = EmptyBag

\* C21: whenever the start command creates the panel, the one directive it
\* sends to the new panel is IdleBlink.
C21_FirstDirectiveIdleBlink ==
  [][(last'.op = "Start" /\ ~panel /\ panel')
       => (issued' # << >> /\ issued'[1].name = "IdleBlink")]_vars

\* C24: however often the panel was created, exactly one idle ticker is
\* active once a panel exists, and one Saved signal issues at most one
\* Sniff directive.
C24_HandledOnce ==
  /\ wired > 0 => Pending("ticker") = 1
  /\ last.op = "Saved" => Count(issued, "Sniff") <= 1

\* C23: after an edit (typingActive is still set), with the panel alive, no
\* death lock, success hold or override active and no timer callback left to
\* run but the idle ticker's, Walk is never current once that edit is further
\* back than the idle threshold.
C23_WalkDoesNotOutliveTyping ==
  (/\ panel
   /\ typingActive
   /\ OneShots = {}
   /\ currentAnim = "Walk"
   /\ ~deathLocked
   /\ successRunTimeout = NULL
   /\ ~IsTempActive(Cur))
    => now - lastTypeTime <= IDLE_THRESHOLD_MS

\* C22: a call playTemp(name, ms) made with the panel alive and frames for
\* name issues exactly one directive, for name, also when name is already
\* current, sets tempHoldUntil to now + ms and makes name current; and the
\* timer of an older override that fires while the newer hold is still running
\* changes nothing.
C22_PlayTempContract ==
  [][/\ (last'.op = "playTemp" /\ panel /\ animations[last'.arg.name] > 0)
          => /\ Len(issued') = 1 /\ issued'[1].name = last'.arg.name
             /\ currentAnim' = last'.arg.name
             /\ tempHoldUntil' = now + last'.arg.ms
     /\ (last'.op = "TempExpiry" /\ IsTempActive(Cur))
          => /\ issued' = << >>
             /\ currentAnim' = currentAnim
             /\ tempHoldUntil' = tempHoldUntil]_vars

\* the timer of an older override has fired while the hold of the override
\* that replaced it is still running, and the newer override is still current
C22_Witness ==
  /\ last.op = "TempExpiry"
  /\ panel
  /\ IsTempActive(Cur)
  /\ currentAnim \in {"Bite", "Sniff"}
  /\ issued = << >>
  /\ Pending("temp") > 0

\* C25: once the signals have stopped, with the panel alive and the idle
\* ticker running, the controller eventually is, and from then on stays,
\* without death lock, success hold, override and pending bark check, with
\* IdleBlink current.
Quiet ==
  /\ ~deathLocked
  /\ successRunTimeout = NULL
  /\ ~IsTempActive(Cur)
  /\ diagBarkTimeout = NULL
  /\ currentAnim = "IdleBlink"

C25_Quiescence == <>[]((panel /\ active) => Quiet)

\* the signals have stopped, every one-shot timer has run, the idle blinks are
\* spent and the controller is at rest with the panel alive
C25_Witness ==
  /\ panel
  /\ active
  /\ Quiet
  /\ ninputs >= MaxQuietInputs
  /\ OneShots = {}
  /\ idleBlinkCount = MAX_IDLE_BLINKS
  /\ lockedUntil = 0

====
